---- MODULE Spec2Model ----
(***************************************************************************)
(* Model of scripts/parse_logs.py: the log event extractor that scans the  *)
(* debug-*.log files for "recv udp tag 2" event headers, decodes the hex   *)
(* dump that follows each of them and writes at most three records to      *)
(* testdata/draw_state.json.                                               *)
(*                                                                         *)
(* Text is modelled as sequences of one-character strings, so that the     *)
(* regular expressions, the hex decoding and the base64 encoding are       *)
(* computed character by character as the script computes them.            *)
(***************************************************************************)
EXTENDS Integers, Sequences, FiniteSets, TLC

(***************************************************************************)
(* Bounds of the model.                                                    *)
(***************************************************************************)
\* total number of lines over all the log files
MaxLines == 5
\* number of debug-*.log files in the directory
MaxFiles == 2
\* number of times the script is run (re-run specification only)
MaxRuns == 2

(***************************************************************************)
(* Characters.                                                             *)
(***************************************************************************)
Digits == <<"0", "1", "2", "3", "4", "5", "6", "7", "8", "9">>

HexDigits == Digits \o <<"a", "b", "c", "d", "e", "f">>

Range(s) == {s[k] : k \in DOMAIN s}

DigitSet == Range(Digits)

HexDigitSet == Range(HexDigits)

\* \d
IsDigit(c) == c \in DigitSet

\* [0-9a-f]
IsHex(c) == c \in HexDigitSet

\* index of the first k with s[k] = c (s is known to contain c)
IndexOf(s, c) == CHOOSE k \in DOMAIN s : s[k] = c /\ \A j \in 1..(k - 1) : s[j] # c

\* the literal lit occurs in s at position pos (1-based)
HasAt(s, pos, lit) ==
    /\ pos + Len(lit) - 1 <= Len(s)
    /\ \A k \in DOMAIN lit : s[pos + k - 1] = lit[k]

\* position just after the longest run of digits of s that starts at pos (\d+ is greedy)
RECURSIVE DigitsEnd(_, _)
DigitsEnd(s, pos) ==
    IF pos <= Len(s) /\ IsDigit(s[pos]) THEN DigitsEnd(s, pos + 1) ELSE pos

(***************************************************************************)
(* The four regular expressions (parse_logs.py lines 3-6).                 *)
(* re.match anchors at the start of the line only.                         *)
(***************************************************************************)
\* "d" stands for \d, every other character for itself
TsPattern ==
    <<"d", "d", "d", "d", "/", "d", "d", "/", "d", "d", " ",
      "d", "d", ":", "d", "d", ":", "d", "d">>

\* ^\d{4}/\d{2}/\d{2} \d{2}:\d{2}:\d{2}
TsMatch(s) ==
    /\ Len(s) >= Len(TsPattern)
    /\ \A k \in DOMAIN TsPattern :
          IF TsPattern[k] = "d" THEN IsDigit(s[k]) ELSE s[k] = TsPattern[k]

\* "<ts> (send|recv)" followed by one space
DirMatch(s) ==
    /\ TsMatch(s)
    /\ \/ HasAt(s, 20, <<" ", "s", "e", "n", "d", " ">>)
       \/ HasAt(s, 20, <<" ", "r", "e", "c", "v", " ">>)

\* event_re.match(line) is not None
EventMatch(s) ==
    /\ DirMatch(s)
    /\ \/ HasAt(s, 26, <<"t", "c", "p">>)
       \/ HasAt(s, 26, <<"u", "d", "p">>)
    /\ HasAt(s, 29, <<" ", "t", "a", "g", " ">>)
    /\ DigitsEnd(s, 34) > 34
    /\ HasAt(s, DigitsEnd(s, 34), <<" ", "l", "e", "n", " ">>)
    /\ DigitsEnd(s, DigitsEnd(s, 34) + 5) > DigitsEnd(s, 34) + 5

\* m.groups() of a line that matches event_re
EventGroups(s) ==
    [ts        |-> SubSeq(s, 1, 19),
     direction |-> SubSeq(s, 21, 24),
     proto     |-> SubSeq(s, 26, 28),
     tag       |-> SubSeq(s, 34, DigitsEnd(s, 34) - 1),
     length    |-> SubSeq(s, DigitsEnd(s, 34) + 5,
                          DigitsEnd(s, DigitsEnd(s, 34) + 5) - 1)]

\* size_re.match(line) is not None
SizeMatch(s) ==
    /\ DirMatch(s)
    /\ DigitsEnd(s, 26) > 26
    /\ HasAt(s, DigitsEnd(s, 26), <<" ", "b", "y", "t", "e", "s">>)

\* hex_re.match(line) is not None:  ^[0-9a-f]{8}
HexMatch(s) ==
    /\ Len(s) >= 8
    /\ \A k \in 1..8 : IsHex(s[k])

\* the scan restarts on the second digit of a pair
RECURSIVE ScanPairsOverlapping(_, _)
ScanPairsOverlapping(s, pos) ==
    IF pos + 1 > Len(s) THEN <<>>
    ELSE IF IsHex(s[pos]) /\ IsHex(s[pos + 1])
         THEN <<(<<s[pos], s[pos + 1]>>)>> \o ScanPairsOverlapping(s, pos + 1)
         ELSE ScanPairsOverlapping(s, pos + 1)

\* byte_re.findall(line): left to right, non-overlapping pairs of hex digits
RECURSIVE ScanPairs(_, _)
ScanPairs(s, pos) ==
    IF pos + 1 > Len(s) THEN <<>>
    ELSE IF IsHex(s[pos]) /\ IsHex(s[pos + 1])
         THEN <<(<<s[pos], s[pos + 1]>>)>> \o ScanPairs(s, pos + 2)
         ELSE ScanPairs(s, pos + 1)

FindBytes(s) == ScanPairs(s, 1)

\* int(b, 16) of a two-character token
HexVal(c) == IndexOf(HexDigits, c) - 1

Int16(b) == 16 * HexVal(b[1]) + HexVal(b[2])

\* the bytes the inner for loop appends for one hex-dump line (lines 27-28)
LineBytes(s) == [k \in DOMAIN FindBytes(s) |-> Int16(FindBytes(s)[k])]

(***************************************************************************)
(* base64.b64encode(data).decode('ascii')                                  *)
(***************************************************************************)
B64Alphabet ==
    <<"A", "B", "C", "D", "E", "F", "G", "H", "I", "J", "K", "L", "M",
      "N", "O", "P", "Q", "R", "S", "T", "U", "V", "W", "X", "Y", "Z",
      "a", "b", "c", "d", "e", "f", "g", "h", "i", "j", "k", "l", "m",
      "n", "o", "p", "q", "r", "s", "t", "u", "v", "w", "x", "y", "z",
      "0", "1", "2", "3", "4", "5", "6", "7", "8", "9", "+", "/">>

B64Char(n) == B64Alphabet[n + 1]

RECURSIVE B64Encode(_)
B64Encode(bytes) ==
    IF Len(bytes) = 0 THEN <<>>
    ELSE IF Len(bytes) = 1 THEN
        <<B64Char(bytes[1] \div 4), B64Char((bytes[1] % 4) * 16), "=", "=">>
    ELSE IF Len(bytes) = 2 THEN
        <<B64Char(bytes[1] \div 4),
          B64Char((bytes[1] % 4) * 16 + bytes[2] \div 16),
          B64Char((bytes[2] % 16) * 4), "=">>
    ELSE
        <<B64Char(bytes[1] \div 4),
          B64Char((bytes[1] % 4) * 16 + bytes[2] \div 16),
          B64Char((bytes[2] % 16) * 4 + bytes[3] \div 64),
          B64Char(bytes[3] % 64)>>
        \o B64Encode(SubSeq(bytes, 4, Len(bytes)))

(***************************************************************************)
(* Paths: os.path.join('go_client', 'debug-*.log') and the order of        *)
(* sorted(), which compares strings character by character by code point.  *)
(***************************************************************************)
\* the characters of the paths, in increasing code point order
AsciiOrder ==
    <<"-", ".", "/", "0", "1", "2", "3", "4", "5", "6", "7", "8", "9", "_",
      "b", "c", "d", "e", "g", "i", "l", "n", "o", "t", "u">>

Ord(c) == IndexOf(AsciiOrder, c)

\* a < b for Python strings
StrLess(a, b) ==
    \E k \in 1..(Len(a) + 1) :
        /\ k <= Len(b)
        /\ \A j \in 1..(k - 1) : a[j] = b[j]
        /\ \/ k = Len(a) + 1
           \/ k <= Len(a) /\ Ord(a[k]) < Ord(b[k])

\* insertion of one path into a sorted list
RECURSIVE InsertPath(_, _)
InsertPath(sorted, x) ==
    IF sorted = <<>> THEN <<x>>
    ELSE IF StrLess(x, Head(sorted)) THEN <<x>> \o sorted
    ELSE <<Head(sorted)>> \o InsertPath(Tail(sorted), x)

\* the listing used as glob.glob returned it
SortPathsUnsorted(listing) == listing

\* sorted(listing)
RECURSIVE SortPaths(_)
SortPaths(listing) ==
    IF listing = <<>> THEN <<>>
    ELSE InsertPath(SortPaths(SubSeq(listing, 1, Len(listing) - 1)),
                    listing[Len(listing)])

\* go_client/debug-<stem>.log
LogPath(stem) ==
    <<"g", "o", "_", "c", "l", "i", "e", "n", "t", "/",
      "d", "e", "b", "u", "g", "-">> \o stem \o <<".", "l", "o", "g">>

\* the log files that may exist, in directory order
PathPool == <<LogPath(<<"1", "0">>), LogPath(<<"1">>), LogPath(<<"0">>)>>

\* every order in which glob.glob may list the files of S
Listings(S) == {l \in [1..Cardinality(S) -> S] : Range(l) = S}

(***************************************************************************)
(* Log lines the files are made of.                                        *)
(***************************************************************************)
NL == <<"\n">>

\* 2024/01/02 03:04:04
TsA ==
    <<"2", "0", "2", "4", "/", "0", "1", "/", "0", "2", " ",
      "0", "3", ":", "0", "4", ":", "0", "4">>

\* 2024/01/02 03:04:05
TsB ==
    <<"2", "0", "2", "4", "/", "0", "1", "/", "0", "2", " ",
      "0", "3", ":", "0", "4", ":", "0", "5">>

Send == <<"s", "e", "n", "d">>

Recv == <<"r", "e", "c", "v">>

Tcp == <<"t", "c", "p">>

Udp == <<"u", "d", "p">>

\* "<ts> <dir> <proto> tag <tag> len <len>\n"
HeaderLine(t, dir, proto, tag, len) ==
    t \o <<" ">> \o dir \o <<" ">> \o proto \o <<" ", "t", "a", "g", " ">>
      \o tag \o <<" ", "l", "e", "n", " ">> \o len \o NL

\* 2024/01/02 03:04:04 send tcp tag 1 len 4
HdrSendTcp1 == HeaderLine(TsA, Send, Tcp, <<"1">>, <<"4">>)

\* 2024/01/02 03:04:05 recv udp tag 2 len 2
HdrRecvUdp2 == HeaderLine(TsB, Recv, Udp, <<"2">>, <<"2">>)

\* 2024/01/02 03:04:05 recv 2 bytes
SizeLine == TsB \o <<" ">> \o Recv \o <<" ", "2", " ", "b", "y", "t", "e", "s">> \o NL

\* 00000000  ab cd
HexAbCd ==
    <<"0", "0", "0", "0", "0", "0", "0", "0", " ", " ", "a", "b", " ", "c", "d">> \o NL

\* 2024/01/02 03:04:04 send udp tag 2 len 2
HdrSendUdp2 == HeaderLine(TsA, Send, Udp, <<"2">>, <<"2">>)

\* 2024/01/02 03:04:04 recv tcp tag 2 len 2
HdrRecvTcp2 == HeaderLine(TsA, Recv, Tcp, <<"2">>, <<"2">>)

\* 2024/01/02 03:04:04 recv udp tag 22 len 2
HdrRecvUdp22 == HeaderLine(TsA, Recv, Udp, <<"2", "2">>, <<"2">>)

\* 00000000  de ad be ef
HexDeadBeef ==
    <<"0", "0", "0", "0", "0", "0", "0", "0", " ", " ",
      "d", "e", " ", "a", "d", " ", "b", "e", " ", "e", "f">> \o NL

\* deadbeef
HexDeadBeefBare == <<"d", "e", "a", "d", "b", "e", "e", "f">> \o NL

\* 2024/01/02 03:04:04 recv udp tag 2 len 2
HdrRecvUdp2Early == HeaderLine(TsA, Recv, Udp, <<"2">>, <<"2">>)

\* qualifying headers with two different timestamps
OrderVocab == {HdrRecvUdp2, HdrRecvUdp2Early, HdrSendTcp1, HexAbCd}

\* 00000000  abc d
HexOdd ==
    <<"0", "0", "0", "0", "0", "0", "0", "0", " ", " ",
      "a", "b", "c", " ", "d">> \o NL

\* 0000001f  AB cdef0 |.q|
HexUpper ==
    <<"0", "0", "0", "0", "0", "0", "1", "f", " ", " ", "A", "B", " ",
      "c", "d", "e", "f", "0", " ", "|", ".", "q", "|">> \o NL

\* an empty line
BlankLine == NL

\* hex-dump lines with odd runs of hex digits and characters that are not
\* lowercase hex digits
PairVocab == {HdrRecvUdp2, HdrSendTcp1, HexOdd, HexUpper}

\* hex-dump lines separated by an empty line
RegionVocab == {HdrRecvUdp2, HdrSendTcp1, HexAbCd, BlankLine}

\* 2024/01/02 03:04:04 recv udp tag 02 len 2
HdrRecvUdp02 == HeaderLine(TsA, Recv, Udp, <<"0", "2">>, <<"2">>)

\* 2024/01/02 03:04:04 recv udp tag 20 len 2
HdrRecvUdp20 == HeaderLine(TsA, Recv, Udp, <<"2", "0">>, <<"2">>)

\* recv udp headers whose tag text holds the digit 2
TagVocab == {HdrRecvUdp2, HdrRecvUdp02, HdrRecvUdp20, HdrRecvUdp22, HexAbCd}

\* the lines of the example scenario
Vocab == {HdrSendTcp1, HdrRecvUdp2, SizeLine, HexAbCd}

\* headers that fail the filter in one field each
FilterVocab == {HdrRecvUdp2, HdrSendUdp2, HdrRecvTcp2, HdrRecvUdp22, HexAbCd}

\* lines of the re-run specification
RerunVocab == {HdrSendTcp1, HdrRecvUdp2, HexAbCd}

\* hex-dump lines that carry de ad be ef
DecodeVocab == {HdrSendTcp1, HdrRecvUdp2, HexDeadBeef, HexDeadBeefBare}

\* all sequences over S of length at most n
SeqsUpTo(S, n) == UNION {[1..m -> S] : m \in 0..n}

\* the ways to cut the line sequence all into n consecutive files
Cuts(all, n) ==
    {c \in [0..n -> 0..Len(all)] :
        /\ c[0] = 0
        /\ c[n] = Len(all)
        /\ \A k \in 1..n : c[k - 1] <= c[k]}

\* the directories of n files whose lines, put together, are all
Directories(all, n) ==
    {[q \in {PathPool[k] : k \in 1..n} |->
        LET k == CHOOSE j \in 1..n : PathPool[j] = q
        IN  SubSeq(all, c[k - 1] + 1, c[k])] : c \in Cuts(all, n)}

(***************************************************************************)
(* State.                                                                  *)
(***************************************************************************)
\* record cap of the while guard (line 13)
Cap == 3

VARIABLES
    files,      \* the directory: path -> lines of the file
    outfile,    \* testdata/draw_state.json
    pc,         \* position of the script
    paths,      \* sorted(glob.glob(...))
    visited,    \* number of paths the for loop has taken
    lines,      \* lines of the current file
    i,          \* cursor in lines (0-based)
    ts,         \* timestamp of the current event
    data,       \* byte accumulator of the current event
    output,     \* the output collection
    hdr,        \* history: line index of the current event's header
    origins,    \* history: <<path number, header index>> of every record of output
    tested,     \* history: the <<path number, line index, pattern>> matches made
    writes,     \* history: number of times this run wrote outfile
    runs,       \* number of runs started
    results     \* history: what each completed run wrote

vars ==
    <<files, outfile, pc, paths, visited, lines, i, ts, data, output,
      hdr, origins, tested, writes, runs, results>>

scan == <<lines, i, ts, data, hdr, tested, output, origins>>

\* the content of draw_state.json before the run
PriorFile == [status |-> "prior", content |-> <<>>]

InitOver(V) ==
    /\ \E n \in 0..MaxFiles : \E all \in SeqsUpTo(V, MaxLines) :
          files \in Directories(all, n)
    /\ outfile = PriorFile
    /\ pc = "start"
    /\ paths = <<>>
    /\ visited = 0
    /\ lines = <<>>
    /\ i = 0
    /\ ts = <<>>
    /\ data = <<>>
    /\ output = <<>>
    /\ hdr = 0
    /\ origins = <<>>
    /\ tested = {}
    /\ writes = 0
    /\ runs = 1
    /\ results = <<>>

Init == InitOver(Vocab)

(***************************************************************************)
(* The script, one action per step.                                        *)
(***************************************************************************)
\* line 9: sorted(glob.glob(...)), evaluated once before the loop
Glob ==
    /\ pc = "start"
    /\ \E listing \in Listings(DOMAIN files) : paths' = SortPaths(listing)
    /\ pc' = "for"
    /\ UNCHANGED <<files, outfile, visited, scan, writes, runs, results>>

\* lines 9-12: the for loop takes the next path, reads the file, i = 0
OpenFile ==
    /\ pc = "for"
    /\ visited < Len(paths)
    /\ visited' = visited + 1
    /\ lines' = files[paths[visited + 1]]
    /\ i' = 0
    /\ pc' = "while"
    /\ UNCHANGED <<files, outfile, paths, ts, data, output, hdr, origins,
                   tested, writes, runs, results>>

\* the collection is written out before the script ends with the traceback
OpenFailWritesOutput ==
    /\ pc = "for"
    /\ visited < Len(paths)
    /\ visited' = visited + 1
    /\ outfile' = [status |-> "written", content |-> output]
    /\ writes' = writes + 1
    /\ pc' = "aborted"
    /\ UNCHANGED <<files, paths, scan, runs, results>>

\* lines 10-11: open or readlines raises, the script ends with a traceback
OpenFail ==
    /\ pc = "for"
    /\ visited < Len(paths)
    /\ visited' = visited + 1
    /\ pc' = "aborted"
    /\ UNCHANGED <<files, outfile, paths, scan, writes, runs, results>>

\* the for loop is left as soon as the cap is reached
EndForBreaksAtCap ==
    /\ pc = "for"
    /\ visited = Len(paths) \/ Len(output) >= Cap
    /\ pc' = "write"
    /\ UNCHANGED <<files, outfile, paths, visited, scan, writes, runs, results>>

\* line 9: the for loop is exhausted
EndFor ==
    /\ pc = "for"
    /\ visited = Len(paths)
    /\ pc' = "write"
    /\ UNCHANGED <<files, outfile, paths, visited, scan, writes, runs, results>>

\* the cap test left out of the loop guard
WhileGuardNoCap == i < Len(lines)

\* the cap compared with <= instead of <
WhileGuardOffByOne == i < Len(lines) /\ Len(output) <= Cap

\* line 13: i < len(lines) and len(output) < 3
WhileGuard == i < Len(lines) /\ Len(output) < Cap

\* value of a string of decimal digits
RECURSIVE DecimalValue(_)
DecimalValue(d) ==
    IF d = <<>> THEN 0
    ELSE 10 * DecimalValue(SubSeq(d, 1, Len(d) - 1))
         + (IndexOf(Digits, d[Len(d)]) - 1)

\* the tag compared as a number: int(tag) == 2
QualifiesNumericTag(g) ==
    g.direction = Recv /\ g.proto = Udp /\ DecimalValue(g.tag) = 2

\* the tag test left out
QualifiesAnyTag(g) == g.direction = Recv /\ g.proto = Udp

\* line 19: direction == 'recv' and proto == 'udp' and tag == '2'
Qualifies(g) == g.direction = Recv /\ g.proto = Udp /\ g.tag = <<"2">>

\* the size line is not skipped
AfterSizeNoSkip(ls, j) == j

\* lines 22-24: the cursor after the header at j - 1 and the optional size line
AfterSize(ls, j) == IF j < Len(ls) /\ SizeMatch(ls[j + 1]) THEN j + 1 ELSE j

\* an empty line does not end the hex-dump region
HexGuardSkipsBlank ==
    i < Len(lines) /\ (HexMatch(lines[i + 1]) \/ lines[i + 1] = <<"\n">>)

\* line 26: i < len(lines) and hex_re.match(lines[i])
HexGuard == i < Len(lines) /\ HexMatch(lines[i + 1])

\* lines 14-17: the line is not an event header
NoMatch ==
    /\ pc = "while"
    /\ WhileGuard
    /\ ~EventMatch(lines[i + 1])
    /\ i' = i + 1
    /\ tested' = tested \cup {<<visited, i, "event">>}
    /\ UNCHANGED <<files, outfile, pc, paths, visited, lines, ts, data,
                   output, hdr, origins, writes, runs, results>>

\* the cursor is not advanced before the continue
FilteredOutNoAdvance ==
    /\ pc = "while"
    /\ WhileGuard
    /\ EventMatch(lines[i + 1])
    /\ ~Qualifies(EventGroups(lines[i + 1]))
    /\ i' = i
    /\ tested' = tested \cup {<<visited, i, "event">>}
    /\ UNCHANGED <<files, outfile, pc, paths, visited, lines, ts, data,
                   output, hdr, origins, writes, runs, results>>

\* the size line after a filtered-out header is skipped with it
FilteredOutSkipsSize ==
    /\ pc = "while"
    /\ WhileGuard
    /\ EventMatch(lines[i + 1])
    /\ ~Qualifies(EventGroups(lines[i + 1]))
    /\ i' = AfterSize(lines, i + 1)
    /\ tested' = tested \cup {<<visited, i, "event">>}
    /\ UNCHANGED <<files, outfile, pc, paths, visited, lines, ts, data,
                   output, hdr, origins, writes, runs, results>>

\* lines 14, 18-21: an event header that fails the filter
FilteredOut ==
    /\ pc = "while"
    /\ WhileGuard
    /\ EventMatch(lines[i + 1])
    /\ ~Qualifies(EventGroups(lines[i + 1]))
    /\ i' = i + 1
    /\ tested' = tested \cup {<<visited, i, "event">>}
    /\ UNCHANGED <<files, outfile, pc, paths, visited, lines, ts, data,
                   output, hdr, origins, writes, runs, results>>

\* the timestamp is taken from the first event only
HeaderStaleTs ==
    /\ pc = "while"
    /\ WhileGuard
    /\ EventMatch(lines[i + 1])
    /\ Qualifies(EventGroups(lines[i + 1]))
    /\ ts' = IF ts = <<>> THEN EventGroups(lines[i + 1]).ts ELSE ts
    /\ i' = AfterSize(lines, i + 1)
    /\ data' = <<>>
    /\ hdr' = i
    /\ tested' = tested \cup {<<visited, i, "event">>}
                        \cup (IF i + 1 < Len(lines)
                              THEN {<<visited, i + 1, "size">>} ELSE {})
    /\ pc' = "hex"
    /\ UNCHANGED <<files, outfile, paths, visited, lines, output, origins,
                   writes, runs, results>>

\* the accumulator is not reset for the new event
HeaderKeepData ==
    /\ pc = "while"
    /\ WhileGuard
    /\ EventMatch(lines[i + 1])
    /\ Qualifies(EventGroups(lines[i + 1]))
    /\ ts' = EventGroups(lines[i + 1]).ts
    /\ i' = AfterSize(lines, i + 1)
    /\ data' = data
    /\ hdr' = i
    /\ tested' = tested \cup {<<visited, i, "event">>}
                        \cup (IF i + 1 < Len(lines)
                              THEN {<<visited, i + 1, "size">>} ELSE {})
    /\ pc' = "hex"
    /\ UNCHANGED <<files, outfile, paths, visited, lines, output, origins,
                   writes, runs, results>>

\* lines 14, 18-25: a qualifying header; skip the size line, data = bytearray()
Header ==
    /\ pc = "while"
    /\ WhileGuard
    /\ EventMatch(lines[i + 1])
    /\ Qualifies(EventGroups(lines[i + 1]))
    /\ ts' = EventGroups(lines[i + 1]).ts
    /\ i' = AfterSize(lines, i + 1)
    /\ data' = <<>>
    /\ hdr' = i
    /\ tested' = tested \cup {<<visited, i, "event">>}
                        \cup (IF i + 1 < Len(lines)
                              THEN {<<visited, i + 1, "size">>} ELSE {})
    /\ pc' = "hex"
    /\ UNCHANGED <<files, outfile, paths, visited, lines, output, origins,
                   writes, runs, results>>

\* lines 26-29: one hex-dump line is decoded into data
HexLine ==
    /\ pc = "hex"
    /\ HexGuard
    /\ data' = data \o LineBytes(lines[i + 1])
    /\ i' = i + 1
    /\ tested' = tested \cup {<<visited, i, "hex">>}
    /\ UNCHANGED <<files, outfile, pc, paths, visited, lines, ts, output,
                   hdr, origins, writes, runs, results>>

\* the line that ended the hex loop is consumed with the region
EmitConsumesLine ==
    /\ pc = "hex"
    /\ ~HexGuard
    /\ output' = Append(output, [timestamp |-> ts, data |-> B64Encode(data)])
    /\ origins' = Append(origins, <<visited, hdr>>)
    /\ tested' = tested \cup (IF i < Len(lines) THEN {<<visited, i, "hex">>} ELSE {})
    /\ i' = IF i < Len(lines) THEN i + 1 ELSE i
    /\ pc' = "while"
    /\ UNCHANGED <<files, outfile, paths, visited, lines, ts, data, hdr,
                   writes, runs, results>>

\* the record is inserted at the front of the collection
EmitPrepend ==
    /\ pc = "hex"
    /\ ~HexGuard
    /\ output' = <<[timestamp |-> ts, data |-> B64Encode(data)]>> \o output
    /\ origins' = <<(<<visited, hdr>>)>> \o origins
    /\ tested' = tested \cup (IF i < Len(lines) THEN {<<visited, i, "hex">>} ELSE {})
    /\ pc' = "while"
    /\ UNCHANGED <<files, outfile, paths, visited, lines, i, ts, data, hdr,
                   writes, runs, results>>

\* lines 26, 30-33: the hex loop ends, the record is appended
Emit ==
    /\ pc = "hex"
    /\ ~HexGuard
    /\ output' = Append(output, [timestamp |-> ts, data |-> B64Encode(data)])
    /\ origins' = Append(origins, <<visited, hdr>>)
    /\ tested' = tested \cup (IF i < Len(lines) THEN {<<visited, i, "hex">>} ELSE {})
    /\ pc' = "while"
    /\ UNCHANGED <<files, outfile, paths, visited, lines, i, ts, data, hdr,
                   writes, runs, results>>

\* line 13: the while guard fails, back to the for loop
EndWhile ==
    /\ pc = "while"
    /\ ~WhileGuard
    /\ pc' = "for"
    /\ UNCHANGED <<files, outfile, paths, visited, scan, writes, runs, results>>

\* lines 35-36: the output file is overwritten with the collection
WriteOutput ==
    /\ pc = "write"
    /\ outfile' = [status |-> "written", content |-> output]
    /\ writes' = writes + 1
    /\ results' = Append(results, [paths |-> paths, output |-> output])
    /\ pc' = "done"
    /\ UNCHANGED <<files, paths, visited, scan, runs>>

\* lines 35-36: open(..., 'w') raises (file untouched) or json.dump raises
\* after the file was truncated
WriteFail ==
    /\ pc = "write"
    /\ \/ UNCHANGED <<outfile, writes>>
       \/ /\ outfile' = [status |-> "truncated", content |-> <<>>]
          /\ writes' = writes + 1
    /\ pc' = "failed"
    /\ UNCHANGED <<files, paths, visited, scan, runs, results>>

Next ==
    \/ Glob
    \/ OpenFile
    \/ OpenFail
    \/ EndFor
    \/ NoMatch
    \/ FilteredOut
    \/ Header
    \/ HexLine
    \/ Emit
    \/ EndWhile
    \/ WriteOutput
    \/ WriteFail

Spec == Init /\ [][Next]_vars

\* the script is started again over the same directory
Rerun ==
    /\ pc \in {"done", "aborted", "failed"}
    /\ runs < MaxRuns
    /\ runs' = runs + 1
    /\ pc' = "start"
    /\ paths' = <<>>
    /\ visited' = 0
    /\ lines' = <<>>
    /\ i' = 0
    /\ ts' = <<>>
    /\ data' = <<>>
    /\ output' = <<>>
    /\ hdr' = 0
    /\ origins' = <<>>
    /\ tested' = {}
    /\ writes' = 0
    /\ UNCHANGED <<files, outfile, results>>

NextRerun ==
    \/ Next
    \/ Rerun

InitRerun == InitOver(RerunVocab)

SpecRerun == InitRerun /\ [][NextRerun]_vars

InitOrder == InitOver(OrderVocab)

SpecOrder == InitOrder /\ [][Next]_vars

InitPair == InitOver(PairVocab)

SpecPair == InitPair /\ [][Next]_vars

InitRegion == InitOver(RegionVocab)

SpecRegion == InitRegion /\ [][Next]_vars

InitTag == InitOver(TagVocab)

SpecTag == InitTag /\ [][Next]_vars

\* the script is one sequential process: a step that can be taken is taken
SpecLive == InitRerun /\ [][Next]_vars /\ WF_vars(Next)

InitFilter == InitOver(FilterVocab)

SpecFilter == InitFilter /\ [][Next]_vars

InitDecode == InitOver(DecodeVocab)

SpecDecode == InitDecode /\ [][Next]_vars

TypeOK ==
    /\ pc \in {"start", "for", "while", "hex", "write", "done", "aborted", "failed"}
    /\ i \in 0..Len(lines)
    /\ visited \in 0..Len(paths)
    /\ Len(output) = Len(origins)

(***************************************************************************)
(* Vocabulary of the claims.                                               *)
(***************************************************************************)
\* the line at 0-based index h of the file q
LineAt(q, h) == files[q][h + 1]

\* l is an event header with direction recv, protocol udp and tag 2
IsRecvUdpTag2(l) ==
    /\ EventMatch(l)
    /\ EventGroups(l).direction = <<"r", "e", "c", "v">>
    /\ EventGroups(l).proto = <<"u", "d", "p">>
    /\ EventGroups(l).tag = <<"2">>

\* the positions <<path, line index>> of the qualifying headers of the directory
QualifyingHeaders ==
    UNION {{<<q, h>> : h \in {j \in 0..(Len(files[q]) - 1) :
                                IsRecvUdpTag2(LineAt(q, j))}} :
           q \in DOMAIN files}

\* x comes before y in the order "files by sorted name, then line order"
Before(x, y) ==
    IF x[1] = y[1] THEN x[2] < y[2] ELSE StrLess(x[1], y[1])

\* number of qualifying headers that come before x
Rank(x) == Cardinality({y \in QualifyingHeaders : Before(y, x)})

\* the header position <<path, line index>> the k-th record was made from
Origin(k) == <<paths[origins[k][1]], origins[k][2]>>

\* the run went through every file and reached the writing step
Ended == pc \in {"write", "done", "failed"}

(***************************************************************************)
(* C1  Cap enforcement: when the files hold more than 3 qualifying headers *)
(* in total, the output collection at the end of the run holds exactly 3   *)
(* records, and the k-th is the record of the k-th qualifying header in    *)
(* the order "files by sorted name, then line order".                      *)
(***************************************************************************)
C1_CapEnforcement ==
    (Ended /\ Cardinality(QualifyingHeaders) > 3) =>
        /\ Len(origins) = 3
        /\ Len(output) = 3
        /\ \A k \in 1..3 :
              /\ Origin(k) \in QualifyingHeaders
              /\ Rank(Origin(k)) = k - 1
              /\ output[k].timestamp =
                    EventGroups(LineAt(Origin(k)[1], Origin(k)[2])).ts

\* a finished run over two files with four qualifying headers, the third
\* record coming from the second file
C1_Witness ==
    /\ pc = "done"
    /\ Cardinality(QualifyingHeaders) > 3
    /\ Cardinality(DOMAIN files) = 2
    /\ Len(origins) = 3
    /\ Origin(3)[1] # Origin(1)[1]

(***************************************************************************)
(* C2  Filter correctness: in every reachable state every record of the    *)
(* output collection, and the record in the making, comes from a header    *)
(* line of its own with direction recv, protocol udp and tag 2; a header   *)
(* that fails one of the three tests is the origin of no record, whatever  *)
(* lines follow it.                                                        *)
(***************************************************************************)
C2_FilterCorrectness ==
    /\ \A k \in DOMAIN output :
          /\ Origin(k)[2] < Len(files[Origin(k)[1]])
          /\ IsRecvUdpTag2(LineAt(Origin(k)[1], Origin(k)[2]))
          /\ \A j \in DOMAIN output : origins[j] = origins[k] => j = k
    /\ pc = "hex" => IsRecvUdpTag2(LineAt(paths[visited], hdr))

\* a finished run with a record, over a file where a header that fails the
\* filter is directly followed by a hex-dump line
C2_Witness ==
    /\ pc = "done"
    /\ Len(output) >= 1
    /\ \E q \in DOMAIN files : \E h \in 0..(Len(files[q]) - 2) :
          /\ EventMatch(LineAt(q, h))
          /\ ~IsRecvUdpTag2(LineAt(q, h))
          /\ HexMatch(LineAt(q, h + 1))

(***************************************************************************)
(* C3  Example scenario: a single file with the lines "send tcp tag 1      *)
(* len 4", "recv udp tag 2 len 2", "recv 2 bytes", "00000000  ab cd" ends  *)
(* with exactly one record, whose timestamp is the one of the qualifying   *)
(* header and whose data is "q80=", the base64 of the bytes AB CD.         *)
(***************************************************************************)
ExampleLines == <<HdrSendTcp1, HdrRecvUdp2, SizeLine, HexAbCd>>

C3_ExampleScenario ==
    (/\ pc = "done"
     /\ Cardinality(DOMAIN files) = 1
     /\ \A q \in DOMAIN files : files[q] = ExampleLines)
    => output = <<[timestamp |-> TsB, data |-> <<"q", "8", "0", "=">>]>>

(***************************************************************************)
(* C4  Hex decode correctness: a qualifying header followed by one         *)
(* accepted hex-dump line that carries the byte tokens de ad be ef gives a *)
(* record whose data is "3q2+7w==", the base64 of the 4 bytes DE AD BE EF. *)
(***************************************************************************)
C4_HexDecode ==
    (/\ pc = "done"
     /\ Cardinality(DOMAIN files) = 1
     /\ \A q \in DOMAIN files :
           /\ Len(files[q]) = 2
           /\ files[q][1] = HdrRecvUdp2
           /\ files[q][2] \in {HexDeadBeef, HexDeadBeefBare}
           /\ HexMatch(files[q][2]))
    => /\ Len(output) = 1
       /\ output[1].data = <<"3", "q", "2", "+", "7", "w", "=", "=">>

(***************************************************************************)
(* C5  Size line skip: the record of a qualifying header that is followed  *)
(* by a size line holds exactly the bytes of the hex-dump lines after the  *)
(* size line, the same data as the record of a header that the same        *)
(* hex-dump lines follow directly; the size line is matched against the    *)
(* size pattern only, never against the hex-dump pattern; without a size   *)
(* line the hex-dump lines that follow the header are decoded.             *)
(***************************************************************************)
\* the longest run of hex-dump lines of file q that starts at index s
RECURSIVE HexRun(_, _)
HexRun(q, s) ==
    IF s < Len(files[q]) /\ HexMatch(LineAt(q, s))
    THEN <<LineAt(q, s)>> \o HexRun(q, s + 1)
    ELSE <<>>

\* the bytes of a sequence of hex-dump lines
RECURSIVE RunBytes(_)
RunBytes(run) ==
    IF run = <<>> THEN <<>> ELSE LineBytes(Head(run)) \o RunBytes(Tail(run))

\* the line after the header at <<q, h>> is a size line
HasSizeLine(q, h) == h + 1 < Len(files[q]) /\ SizeMatch(LineAt(q, h + 1))

C5_SizeLineSkip ==
    /\ \A k \in DOMAIN output :
          LET q == Origin(k)[1]
              h == Origin(k)[2]
          IN  IF HasSizeLine(q, h)
              THEN /\ output[k].data = B64Encode(RunBytes(HexRun(q, h + 2)))
                   /\ <<origins[k][1], h + 1, "size">> \in tested
                   /\ <<origins[k][1], h + 1, "hex">> \notin tested
              ELSE output[k].data = B64Encode(RunBytes(HexRun(q, h + 1)))
    /\ \A k, j \in DOMAIN output :
          (/\ HasSizeLine(Origin(k)[1], Origin(k)[2])
           /\ ~HasSizeLine(Origin(j)[1], Origin(j)[2])
           /\ HexRun(Origin(k)[1], Origin(k)[2] + 2)
                 = HexRun(Origin(j)[1], Origin(j)[2] + 1))
          => output[k].data = output[j].data

\* two records with the same non-empty data, one from a header followed by
\* a size line and a hex-dump line, one from a header followed by the
\* hex-dump line directly
C5_Witness ==
    /\ pc = "done"
    /\ \E k, j \in DOMAIN output :
          /\ HasSizeLine(Origin(k)[1], Origin(k)[2])
          /\ ~HasSizeLine(Origin(j)[1], Origin(j)[2])
          /\ HexRun(Origin(j)[1], Origin(j)[2] + 1) # <<>>
          /\ output[k].data = output[j].data
          /\ output[k].data # <<>>

(***************************************************************************)
(* C6  Empty payload: a qualifying header that is the last line of its     *)
(* file, or whose next line after the optional size line is missing or is  *)
(* no hex-dump line, still produces exactly one record (while the cap      *)
(* allows it), with an empty byte accumulator and data "".                 *)
(***************************************************************************)
\* no hex-dump line follows the header at x = <<q, h>> and its size line
NoHexFollows(x) ==
    LET q == x[1]
        s == IF HasSizeLine(q, x[2]) THEN x[2] + 2 ELSE x[2] + 1
    IN  s >= Len(files[q]) \/ ~HexMatch(LineAt(q, s))

C6_EmptyPayload ==
    /\ \A k \in DOMAIN output : NoHexFollows(Origin(k)) => output[k].data = <<>>
    /\ (pc # "hex" /\ output # <<>> /\ NoHexFollows(Origin(Len(output))))
          => data = <<>>
    /\ Ended =>
          \A x \in QualifyingHeaders :
              (NoHexFollows(x) /\ Rank(x) < Cap) =>
                  Cardinality({k \in DOMAIN output : Origin(k) = x}) = 1

\* a record with data from a hex dump, then the record of a header that is
\* the last line of the file
C6_Witness ==
    /\ pc = "done"
    /\ Len(output) >= 2
    /\ output[1].data # <<>>
    /\ Origin(Len(output))[2] = Len(files[Origin(Len(output))[1]]) - 1
    /\ output[Len(output)].data = <<>>

(***************************************************************************)
(* C7  Output collection invariant: the collection always has between 0    *)
(* and 3 records, and every step either leaves it unchanged or appends one *)
(* record at its end, so no record is removed, reordered or modified.      *)
(***************************************************************************)
C7_OutputInvariant ==
    /\ [](Len(output) \in 0..3)
    /\ [][\/ output' = output
          \/ /\ Len(output') = Len(output) + 1
             /\ SubSeq(output', 1, Len(output)) = output]_vars

\* the collection is full, with two different records in it
C7_Witness ==
    /\ Len(output) = 3
    /\ output[1] # output[2]

(***************************************************************************)
(* C8  Immediate stop at the cap: once the collection holds 3 records no   *)
(* line is matched against the header, size or hex pattern any more, in    *)
(* the current file or in a later one, no record is added and no cursor    *)
(* advances (the cursor of a file opened later stays at 0).                *)
(***************************************************************************)
C8_StopAtCap ==
    [][Len(output) >= Cap =>
          /\ tested' = tested
          /\ output' = output
          /\ pc' # "hex"
          /\ i' = i \/ (visited' = visited + 1 /\ i' = 0)]_vars

\* the cap is reached before the end of the file, and a later file, opened
\* afterwards, has lines that are not scanned
C8_Witness ==
    /\ Len(output) = Cap
    /\ pc = "while"
    /\ i = 0
    /\ Len(lines) > 0
    /\ visited >= 2

(***************************************************************************)
(* C9  Input failure and write ordering: a run writes the output file at   *)
(* most once, and only at the writing step, after the for loop went        *)
(* through every file (each exhausted or the cap reached); when a file     *)
(* cannot be opened or read the run ends there: nothing more happens, the  *)
(* output file is not written and keeps its previous content.              *)
(***************************************************************************)
C9_FailureAndWriteOrder ==
    /\ [](writes <= 1)
    /\ [](pc = "aborted" => (writes = 0 /\ outfile = PriorFile))
    /\ [][(writes' # writes \/ outfile' # outfile) =>
             /\ pc = "write"
             /\ visited = Len(paths)
             /\ paths = <<>> \/ i = Len(lines) \/ Len(output) >= Cap]_vars
    /\ [][pc = "aborted" => UNCHANGED vars]_vars

\* the second file could not be opened, after the first gave a record
C9_Witness ==
    /\ pc = "aborted"
    /\ visited = 2
    /\ Len(output) >= 1

(***************************************************************************)
(* C10  Determinism: every completed run over the same directory sorts the *)
(* paths the same way and writes the same collection, in whatever order    *)
(* the directory listing returned the files.                               *)
(***************************************************************************)
C10_Determinism ==
    \A a, b \in DOMAIN results : results[a] = results[b]

\* two completed runs over two files whose records differ
C10_Witness ==
    /\ Len(results) = 2
    /\ Len(results[2].paths) = 2
    /\ Len(results[2].output) >= 2
    /\ results[2].output[1] # results[2].output[Len(results[2].output)]
    /\ origins[1][1] # origins[Len(origins)][1]

(***************************************************************************)
(* C11  One record per qualifying header: a run that went through every    *)
(* file ends with exactly min(3, Q) records, Q being the number of         *)
(* qualifying headers of all files; the k-th record comes from the k-th    *)
(* qualifying header in (sorted path, line) order and carries the first 19 *)
(* characters of that line as its timestamp; with Q = 0 the collection is  *)
(* empty.                                                                  *)
(***************************************************************************)
Min(a, b) == IF a < b THEN a ELSE b

C11_OneRecordPerHeader ==
    Ended =>
        LET Q == QualifyingHeaders
        IN  /\ Len(output) = Min(3, Cardinality(Q))
            /\ Len(origins) = Len(output)
            /\ \A k \in DOMAIN output :
                  /\ Origin(k) \in Q
                  /\ Cardinality({y \in Q : Before(y, Origin(k))}) = k - 1
                  /\ output[k].timestamp =
                        SubSeq(LineAt(Origin(k)[1], Origin(k)[2]), 1, 19)

\* a finished run with two records of different timestamps, the later
\* timestamp first, and fewer than three qualifying headers
C11_Witness ==
    /\ pc = "done"
    /\ Len(output) = 2
    /\ output[1].timestamp = TsB
    /\ output[2].timestamp = TsA

(***************************************************************************)
(* C12  A header that matches the event pattern but fails the filter moves *)
(* the cursor by exactly one line and starts no hex-dump consumption: the  *)
(* collection, the accumulator and the scanning mode are unchanged, and    *)
(* the lines that follow it up to the next header are matched against the  *)
(* event pattern only, never against the size or hex pattern, so none of   *)
(* their bytes is decoded.                                                 *)
(***************************************************************************)
\* line j of file q lies after a filtered-out header with no header between
AfterFilteredOut(q, j) ==
    \E h \in 0..(j - 1) :
        /\ EventMatch(LineAt(q, h))
        /\ ~IsRecvUdpTag2(LineAt(q, h))
        /\ \A m \in (h + 1)..j : ~EventMatch(LineAt(q, m))

C12_FilteredHeaderSkipped ==
    /\ [][(/\ pc = "while"
           /\ i < Len(lines)
           /\ Len(output) < Cap
           /\ EventMatch(lines[i + 1])
           /\ ~IsRecvUdpTag2(lines[i + 1]))
          => /\ i' = i + 1
             /\ pc' = "while"
             /\ output' = output
             /\ data' = data
             /\ tested' = tested \cup {<<visited, i, "event">>}]_vars
    /\ [](\A t \in tested :
              AfterFilteredOut(paths[t[1]], t[2]) => t[3] = "event")

\* the scan went over a size line and a hex-dump line that follow a
\* filtered-out header, and a record was made elsewhere
C12_Witness ==
    /\ pc = "done"
    /\ Len(output) >= 1
    /\ \E t \in tested :
          /\ t[2] >= 2
          /\ SizeMatch(LineAt(paths[t[1]], t[2] - 1))
          /\ HexMatch(LineAt(paths[t[1]], t[2]))
          /\ AfterFilteredOut(paths[t[1]], t[2])

(***************************************************************************)
(* C13  Pair-scan decoding: the byte accumulator of a record is the        *)
(* concatenation, over the hex-dump lines of its region in line order, of  *)
(* the bytes of the pairs of lowercase hex digits found by a left-to-right *)
(* non-overlapping scan of the whole line: the pairs at even offsets of    *)
(* each maximal run of hex digits; the last digit of an odd run and every  *)
(* other character give no byte.                                           *)
(***************************************************************************)
\* first position of the maximal run of hex digits of s that holds position p
RunStart(s, p) ==
    CHOOSE a \in 1..p :
        /\ \A j \in a..p : IsHex(s[j])
        /\ a = 1 \/ ~IsHex(s[a - 1])

\* the positions where a pair of the scan starts
PairStarts(s) ==
    {p \in 1..(Len(s) - 1) :
        /\ IsHex(s[p])
        /\ IsHex(s[p + 1])
        /\ (p - RunStart(s, p)) % 2 = 0}

\* the bytes of the pairs of s, by increasing position
PairBytes(s) ==
    LET P == PairStarts(s)
        at(k) == CHOOSE p \in P : Cardinality({r \in P : r < p}) = k - 1
    IN  [k \in 1..Cardinality(P) |->
            16 * HexVal(s[at(k)]) + HexVal(s[at(k) + 1])]

RECURSIVE RunPairBytes(_)
RunPairBytes(run) ==
    IF run = <<>> THEN <<>> ELSE PairBytes(Head(run)) \o RunPairBytes(Tail(run))

\* the bytes of the hex-dump region of the header at x = <<q, h>>
RegionPairBytes(x) ==
    RunPairBytes(HexRun(x[1], IF HasSizeLine(x[1], x[2]) THEN x[2] + 2
                                                         ELSE x[2] + 1))

C13_PairScan ==
    /\ \A k \in DOMAIN output :
          output[k].data = B64Encode(RegionPairBytes(Origin(k)))
    /\ (pc # "hex" /\ output # <<>>) =>
          data = RegionPairBytes(Origin(Len(output)))

\* the last record was decoded from "00000000  abc d" and
\* "0000001f  AB cdef0 |.q|"
C13_Witness ==
    /\ pc = "done"
    /\ output # <<>>
    /\ HexRun(Origin(Len(output))[1], Origin(Len(output))[2] + 1)
          = <<HexOdd, HexUpper>>
    /\ data = <<0, 0, 0, 0, 171, 0, 0, 0, 31, 205, 239>>

(***************************************************************************)
(* C14  Contiguous hex region: a hex-dump line is decoded only when it     *)
(* belongs to the unbroken run of hex-dump lines that starts right after a *)
(* qualifying header and its optional size line; the record holds the      *)
(* bytes of that run only, and hex-dump lines that come after the line     *)
(* that ended the run (an empty line for instance) are decoded into no     *)
(* record.                                                                 *)
(***************************************************************************)
\* line j of file q is in the unbroken hex run of a qualifying header
InRegion(q, j) ==
    \E h \in 0..(j - 1) :
        /\ IsRecvUdpTag2(LineAt(q, h))
        /\ LET s == IF HasSizeLine(q, h) THEN h + 2 ELSE h + 1
           IN  s <= j /\ \A m \in s..j : HexMatch(LineAt(q, m))

C14_ContiguousRegion ==
    /\ \A t \in tested :
          (t[3] = "hex" /\ HexMatch(LineAt(paths[t[1]], t[2])))
              => InRegion(paths[t[1]], t[2])
    /\ \A k \in DOMAIN output :
          LET q == Origin(k)[1]
              h == Origin(k)[2]
          IN  output[k].data =
                 B64Encode(RunBytes(HexRun(q, IF HasSizeLine(q, h) THEN h + 2
                                                                   ELSE h + 1)))

\* header, hex-dump line, empty line, hex-dump line: the record holds the
\* bytes of the first hex-dump line only, the second one was not decoded
C14_Witness ==
    /\ pc = "done"
    /\ \E k \in DOMAIN output :
          LET q == Origin(k)[1]
              h == Origin(k)[2]
          IN  /\ h + 3 < Len(files[q])
              /\ HexMatch(LineAt(q, h + 1))
              /\ LineAt(q, h + 2) = BlankLine
              /\ HexMatch(LineAt(q, h + 3))
              /\ output[k].data = B64Encode(LineBytes(LineAt(q, h + 1)))
              /\ <<origins[k][1], h + 3, "hex">> \notin tested
              /\ <<origins[k][1], h + 3, "event">> \in tested

(***************************************************************************)
(* C15  The line that ends a hex-dump region is not consumed: emitting     *)
(* the record leaves the cursor on it, the line under the cursor of the    *)
(* scan loop has not been matched against the event pattern yet and is     *)
(* matched by the next step, so every qualifying header the cursor went    *)
(* past has its own record (made or in the making) while the cap is not    *)
(* reached, also when it directly follows another qualifying header or     *)
(* its hex dump.                                                           *)
(***************************************************************************)
\* the cursor went past line j of the n-th path
Passed(n, j) == n < visited \/ (n = visited /\ pc # "aborted" /\ j < i)

\* the header at line j of the n-th path has a record, made or in the making
HasRecord(n, j) ==
    \/ \E k \in DOMAIN origins : origins[k] = <<n, j>>
    \/ pc = "hex" /\ visited = n /\ hdr = j

C15_TerminatorNotConsumed ==
    /\ [][(pc = "hex" /\ pc' = "while") => i' = i]_vars
    /\ []((pc = "while" /\ i < Len(lines)) => <<visited, i, "event">> \notin tested)
    /\ [][(pc = "while" /\ i < Len(lines) /\ Len(output) < Cap)
             => <<visited, i, "event">> \in tested']_vars
    /\ [](\A n \in 1..visited : \A j \in 0..(Len(files[paths[n]]) - 1) :
             (IsRecvUdpTag2(LineAt(paths[n], j)) /\ Passed(n, j))
                 => (HasRecord(n, j) \/ Len(output) >= Cap))

\* one file gave three records: a header, the header right after it, and
\* the header right after the hex-dump line of the second
C15_Witness ==
    /\ pc = "done"
    /\ Len(origins) = 3
    /\ origins[2] = <<origins[1][1], origins[1][2] + 1>>
    /\ origins[3] = <<origins[1][1], origins[1][2] + 3>>
    /\ HexMatch(LineAt(Origin(2)[1], Origin(2)[2] + 1))
    /\ output[2].data # <<>>

(***************************************************************************)
(* C16  Termination: within a file the cursor never decreases and never    *)
(* exceeds the number of lines, every iteration of the scan loop advances  *)
(* it by at least one line, and the paths are distinct and taken one after *)
(* the other; as stated, the run therefore eventually reaches the          *)
(* output-writing step.                                                    *)
(***************************************************************************)
C16_CursorProgress ==
    /\ [](i \in 0..Len(lines))
    /\ [](visited \in 0..Len(paths))
    /\ [](\A a, b \in DOMAIN paths : paths[a] = paths[b] => a = b)
    /\ [][visited' \in {visited, visited + 1}]_vars
    /\ [][visited' = visited => i' >= i]_vars
    /\ [][(pc = "while" /\ pc' \in {"while", "hex"}) => i' >= i + 1]_vars

C16_Termination ==
    /\ C16_CursorProgress
    /\ <>(pc = "write")

(***************************************************************************)
(* C16 (amended)  The cursor properties hold, and the run eventually       *)
(* reaches the output-writing step or ends at a file that cannot be opened *)
(* or read.                                                                *)
(***************************************************************************)
C16_TerminationOrAbort ==
    /\ C16_CursorProgress
    /\ <>(pc = "write" \/ pc = "aborted")

\* the writing step is reached after two files were scanned, with a
\* filtered-out header, a hex dump and a record
C16_Witness ==
    /\ pc = "write"
    /\ visited = 2
    /\ Len(output) >= 1
    /\ \E t \in tested : t[1] = 1 /\ t[3] = "hex"
    /\ \E t \in tested : t[1] = 2 /\ ~IsRecvUdpTag2(LineAt(paths[2], t[2]))
                                  /\ EventMatch(LineAt(paths[2], t[2]))

(***************************************************************************)
(* C17  Files sorted after the one in which the cap was reached are still  *)
(* opened and read, although none of their lines is scanned: the for loop  *)
(* takes every path before the writing step, so an unreadable file after   *)
(* the cap still ends the run with the output file unwritten and the 3     *)
(* collected records lost.                                                 *)
(***************************************************************************)
C17_OpenAfterCap ==
    /\ [](Ended => visited = Len(paths))
    /\ [][(pc = "for" /\ visited < Len(paths)) =>
             /\ visited' = visited + 1
             /\ \/ pc' = "aborted"
                \/ /\ pc' = "while"
                   /\ lines' = files[paths[visited + 1]]
                   /\ i' = 0]_vars
    /\ [](Len(output) = Cap => \A t \in tested : t[1] <= origins[Cap][1])
    /\ []((pc = "aborted" /\ Len(output) = Cap) =>
             (writes = 0 /\ outfile = PriorFile))

\* the first file filled the collection, the second could not be opened:
\* the run ended with three records in memory and the output file untouched
C17_Witness ==
    /\ pc = "aborted"
    /\ Len(output) = Cap
    /\ visited = 2
    /\ origins[Cap][1] = 1
    /\ outfile = PriorFile

(***************************************************************************)
(* C18  The tag is compared as text: every record, made or in the making,  *)
(* comes from a header whose tag field is exactly the one-character string *)
(* "2"; recv udp headers with the tag text 02, 20 or 22 give no record.    *)
(***************************************************************************)
\* the text between "tag " and the next space of a header line
TagText(l) ==
    LET e == CHOOSE e \in 34..Len(l) :
                 l[e] = " " /\ \A j \in 34..(e - 1) : l[j] # " "
    IN  SubSeq(l, 34, e - 1)

C18_TagAsText ==
    /\ \A k \in DOMAIN output :
          TagText(LineAt(Origin(k)[1], Origin(k)[2])) = <<"2">>
    /\ pc = "hex" => TagText(LineAt(paths[visited], hdr)) = <<"2">>

\* a finished run that matched headers with the tags 02, 20 and 22 against
\* the event pattern and made a record from a header with tag 2
C18_Witness ==
    /\ pc = "done"
    /\ Len(output) >= 1
    /\ \A tag \in {<<"0", "2">>, <<"2", "0">>, <<"2", "2">>} :
          \E t \in tested :
              /\ t[3] = "event"
              /\ EventMatch(LineAt(paths[t[1]], t[2]))
              /\ TagText(LineAt(paths[t[1]], t[2])) = tag

====
